---- MODULE Spec2Model ----
(***************************************************************************)
(* State-machine model of src/src/core/client.py: the OpenAIClient          *)
(* request forwarder (non-streaming and streaming paths), its registry of   *)
(* cancellation events (active_requests) and cancel_request.                *)
(*                                                                          *)
(* A forwarding call runs in a call slot.  Its steps are the stretches of   *)
(* code between two suspension points of the coroutine (await / yield).     *)
(***************************************************************************)
EXTENDS Integers, Sequences, FiniteSets, TLC

\* ------------------------------------------------------------------ bounds
NumCalls   == 2      \* call slots of the model
MaxRetries == 2      \* largest configured stream_max_retries explored
MaxChunks  == 2      \* most units the upstream delivers to one call

Calls == 1..NumCalls
Ids   == {1, 2}      \* truthy request identifiers
NoId  == 0           \* request_id None (or empty): falsy
RetryDelays == {2, 3}

\* An asyncio.Event is named by a token: the slot of the live call that
\* created it, or -x for the event a finished call left under identifier x.
NoTok == 0
Stale(x) == 0 - x
Tokens == Calls \cup {Stale(x) : x \in Ids}

\* ------------------------------------------------------------- exceptions
NoStatus == 0        \* the exception object has no status_code attribute

\* Substrings of str(e).lower() that the code looks for.
retryable_patterns ==
  {"timeout", "timed out", "connection", "network",
   "temporarily unavailable", "try again"}

\* An exception object: its class, its status_code attribute, the retry hints
\* str(e).lower() contains, and what __cause__ names (the httpx exception the
\* openai client wrapped, where the difference matters).
Exc(cls, status, msg) ==
  [cls |-> cls, status |-> status, msg |-> msg, cause |-> "none"]

\* raise ... from err
From(e, cause) == [e EXCEPT !.cause = cause]

NoError == Exc("None", NoStatus, {})

\* Class hierarchy of openai._exceptions and fastapi.HTTPException.
Bases(cls) ==
  CASE cls = "AuthenticationError" ->
         {"AuthenticationError", "APIStatusError", "APIError", "Exception"}
    [] cls = "RateLimitError" ->
         {"RateLimitError", "APIStatusError", "APIError", "Exception"}
    [] cls = "BadRequestError" ->
         {"BadRequestError", "APIStatusError", "APIError", "Exception"}
    [] cls = "APIStatusError" -> {"APIStatusError", "APIError", "Exception"}
    [] cls = "APITimeoutError" ->
         {"APITimeoutError", "APIConnectionError", "APIError", "Exception"}
    [] cls = "APIConnectionError" ->
         {"APIConnectionError", "APIError", "Exception"}
    [] cls = "APIError" -> {"APIError", "Exception"}
    [] cls = "HTTPException" -> {"HTTPException", "Exception"}
    [] cls = "Exception" -> {"Exception"}
    [] OTHER -> {}

IsInstance(e, cls) == cls \in Bases(e.cls)

\* The pool has no free connection within pool_timeout: httpx.PoolTimeout is
\* an httpx.TimeoutException, which the openai client re-raises as
\* APITimeoutError("Request timed out.") like every other httpx timeout.
PoolTimeout == From(Exc("APITimeoutError", NoStatus, {"timed out"}), "PoolTimeout")

\* What the upstream call can raise.
UpstreamErrors ==
  { Exc("AuthenticationError", 401, {"invalid_api_key"}),
    Exc("RateLimitError", 429, {"rate_limit", "try again"}),
    Exc("BadRequestError", 400, {}),
    Exc("APITimeoutError", NoStatus, {"timed out"}),
    PoolTimeout,
    Exc("APIConnectionError", NoStatus, {"connection"}),
    Exc("APIStatusError", 500, {}),
    Exc("APIStatusError", 500, {"try again"}),
    Exc("APIStatusError", 503, {}),
    Exc("APIStatusError", 408, {}),
    Exc("APIError", NoStatus, {}),
    Exc("Exception", NoStatus, {}),
    Exc("Exception", NoStatus, {"network"}) }

\* raise HTTPException(status_code=499, detail="Request cancelled by client");
\* str() of it is "499: Request cancelled by client".
CancelledException == Exc("HTTPException", 499, {"request cancelled by client"})

\* getattr(e, 'status_code', 500)
StatusOr500(e) == IF e.status = NoStatus THEN 500 ELSE e.status

\* ---------------------------------------------------------------- events
Unit(a, j) == [attempt |-> a, index |-> j]
\* The terminator's payload is the literal [DONE], not a unit.
DoneMark == [attempt |-> -1, index |-> -1]
\* f"data: {json.dumps(chunk.model_dump())}"
Frame(u) == [data |-> u]
DONE == [data |-> DoneMark]

\* ------------------------------------------------------------- results
NoResult == [kind |-> "none", status |-> 0, detail |-> ""]
Returned == [kind |-> "ok", status |-> 0, detail |-> ""]
Closed   == [kind |-> "closed", status |-> 0, detail |-> ""]
\* raise HTTPException(status_code=status, detail=detail)
HTTPError(status, detail) == [kind |-> "error", status |-> status, detail |-> detail]

NoMark == [comp |-> "", nout |-> -1]

VARIABLES
  stream_retry_enabled, stream_max_retries, stream_retry_delay,
  active_requests,   \* request id -> token of the registered event, or NoTok
  is_set,            \* token -> the event's flag
  kind,              \* slot -> "none" | "stream" | "plain"
  pc,                \* slot -> where the call is suspended
  request_id,        \* slot -> the call's request_id argument
  retry_count, last_error,
  comp, ctask,       \* slot -> state of completion_task / cancel_task
  upstream,          \* slot -> what the upstream call of a plain call produced
  done,              \* slot -> the set `done` returned by asyncio.wait
  ready,             \* slot -> the event loop's ready handles of this call, FIFO
  result,            \* slot -> how the call ended
  recv, out, sleeps, opens, errs, raised, cancel_at   \* what the call has done so far

cfgVars  == <<stream_retry_enabled, stream_max_retries, stream_retry_delay>>
regVars  == <<active_requests, is_set>>
taskVars == <<comp, ctask, upstream, done, ready>>
histVars == <<recv, out, sleeps, opens, errs, raised>>
vars == <<cfgVars, regVars, kind, pc, request_id, retry_count, last_error,
          taskVars, result, histVars, cancel_at>>

\* ------------------------------------------------------ pure functions

\* Mutant of is_retryable_error: the status list is not consulted.
is_retryable_error_text_only(e) ==
  \/ IsInstance(e, "APITimeoutError") \/ IsInstance(e, "APIConnectionError")
  \/ e.msg \cap retryable_patterns # {}

\* Mutant of is_retryable_error: every exception counts as retryable.
is_retryable_error_any(e) == TRUE

\* is_retryable_error(error)
is_retryable_error(e) ==
  \/ IsInstance(e, "APITimeoutError") \/ IsInstance(e, "APIConnectionError")
  \/ IsInstance(e, "APIError") /\ e.status \in {408, 429, 502, 503, 504}
  \/ e.msg \cap retryable_patterns # {}

\* max_retries = self.stream_max_retries if self.stream_retry_enabled else 0
EffectiveMaxRetries(enabled, configured) == IF enabled THEN configured ELSE 0

max_retries == EffectiveMaxRetries(stream_retry_enabled, stream_max_retries)

\* Mutant of BackoffDelay: the exponent is the attempt number after its increment.
BackoffDelay_incremented(base, n) == base * 2^(n + 1)

\* delay = self.stream_retry_delay * (2 ** retry_count)
BackoffDelay(base, n) == base * 2^n

\* Mutant of MayRetry: the comparison is <=, one retry too many.
MayRetry_inclusive(rc, mr, en) == rc <= mr /\ en

\* Mutant of MayRetry: the last permitted retry is refused.
MayRetry_short(rc, mr, en) == rc + 1 < mr /\ en

\* retry_count < max_retries and self.stream_retry_enabled
MayRetry(rc, mr, en) == rc < mr /\ en

\* detail=self.classify_openai_error(str(e)) / detail=f"Unexpected error: {str(e)}"
ClassifiedDetail == "classify_openai_error(str(e))"
UnexpectedDetail == "Unexpected error: str(e)"
CancelledDetail  == "Request cancelled by client"

Raise(clause, status, detail, last) ==
  [act |-> "raise", clause |-> clause, status |-> status, detail |-> detail,
   delay |-> 0, last |-> last]
SleepFor(clause, delay) ==
  [act |-> "sleep", clause |-> clause, status |-> 0, detail |-> "",
   delay |-> delay, last |-> TRUE]

\* Mutant of StreamHandler: there is no RateLimitError clause, so a rate-limit
\* error reaches the APIError clause.
StreamHandler_no_rate_limit(e, rc, mr, en, base) ==
  IF IsInstance(e, "AuthenticationError")
    THEN Raise("auth", 401, ClassifiedDetail, FALSE)
  ELSE IF IsInstance(e, "BadRequestError")
    THEN Raise("bad_request", 400, ClassifiedDetail, FALSE)
  ELSE IF IsInstance(e, "APITimeoutError") \/ IsInstance(e, "APIConnectionError")
    THEN IF MayRetry(rc, mr, en)
           THEN SleepFor("timeout", BackoffDelay(base, rc))
           ELSE Raise("timeout", 504, ClassifiedDetail, TRUE)
  ELSE IF IsInstance(e, "APIError")
    THEN IF is_retryable_error(e) /\ MayRetry(rc, mr, en)
           THEN SleepFor("api", BackoffDelay(base, rc))
           ELSE Raise("api", StatusOr500(e), ClassifiedDetail, FALSE)
  ELSE IF is_retryable_error(e) /\ MayRetry(rc, mr, en)
           THEN SleepFor("generic", BackoffDelay(base, rc))
           ELSE Raise("generic", 500, UnexpectedDetail, FALSE)

\* Mutant of StreamHandler: the timeout clause retries whenever retries are
\* enabled and leaves the count to the loop condition.
StreamHandler_timeout_uncounted(e, rc, mr, en, base) ==
  IF IsInstance(e, "AuthenticationError")
    THEN Raise("auth", 401, ClassifiedDetail, FALSE)
  ELSE IF IsInstance(e, "RateLimitError")
    THEN Raise("rate_limit", 429, ClassifiedDetail, FALSE)
  ELSE IF IsInstance(e, "BadRequestError")
    THEN Raise("bad_request", 400, ClassifiedDetail, FALSE)
  ELSE IF IsInstance(e, "APITimeoutError") \/ IsInstance(e, "APIConnectionError")
    THEN IF en
           THEN SleepFor("timeout", BackoffDelay(base, rc))
           ELSE Raise("timeout", 504, ClassifiedDetail, TRUE)
  ELSE IF IsInstance(e, "APIError")
    THEN IF is_retryable_error(e) /\ MayRetry(rc, mr, en)
           THEN SleepFor("api", BackoffDelay(base, rc))
           ELSE Raise("api", StatusOr500(e), ClassifiedDetail, FALSE)
  ELSE IF is_retryable_error(e) /\ MayRetry(rc, mr, en)
           THEN SleepFor("generic", BackoffDelay(base, rc))
           ELSE Raise("generic", 500, UnexpectedDetail, FALSE)

\* The except clauses of the streaming attempt loop, in textual order: what
\* exception e does when raised inside the try of attempt rc.
StreamHandler(e, rc, mr, en, base) ==
  IF IsInstance(e, "AuthenticationError")
    THEN Raise("auth", 401, ClassifiedDetail, FALSE)
  ELSE IF IsInstance(e, "RateLimitError")
    THEN Raise("rate_limit", 429, ClassifiedDetail, FALSE)
  ELSE IF IsInstance(e, "BadRequestError")
    THEN Raise("bad_request", 400, ClassifiedDetail, FALSE)
  ELSE IF IsInstance(e, "APITimeoutError") \/ IsInstance(e, "APIConnectionError")
    THEN IF MayRetry(rc, mr, en)
           THEN SleepFor("timeout", BackoffDelay(base, rc))
           ELSE Raise("timeout", 504, ClassifiedDetail, TRUE)
  ELSE IF IsInstance(e, "APIError")
    THEN IF is_retryable_error(e) /\ MayRetry(rc, mr, en)
           THEN SleepFor("api", BackoffDelay(base, rc))
           ELSE Raise("api", StatusOr500(e), ClassifiedDetail, FALSE)
  ELSE IF is_retryable_error(e) /\ MayRetry(rc, mr, en)
           THEN SleepFor("generic", BackoffDelay(base, rc))
           ELSE Raise("generic", 500, UnexpectedDetail, FALSE)

\* The except clauses of create_chat_completion.
PlainHandler(e) ==
  IF IsInstance(e, "AuthenticationError") THEN HTTPError(401, ClassifiedDetail)
  ELSE IF IsInstance(e, "RateLimitError") THEN HTTPError(429, ClassifiedDetail)
  ELSE IF IsInstance(e, "BadRequestError") THEN HTTPError(400, ClassifiedDetail)
  ELSE IF IsInstance(e, "APIError") THEN HTTPError(StatusOr500(e), ClassifiedDetail)
  ELSE HTTPError(500, UnexpectedDetail)

\* Mutant of Register: an id that is registered keeps the token it has.
Register_keep_first(reg, id, tok) ==
  IF id # NoId /\ reg[id] = NoTok THEN [reg EXCEPT ![id] = tok] ELSE reg

\* if request_id: self.active_requests[request_id] = cancel_event
Register(reg, id, tok) == IF id # NoId THEN [reg EXCEPT ![id] = tok] ELSE reg

\* Mutant of PlainCleanup: the finally clause empties the registry.
PlainCleanup_clear_all(reg, id) == [x \in Ids |-> NoTok]

\* Mutant of PlainCleanup: the finally clause leaves the registry alone.
PlainCleanup_skip(reg, id) == reg

\* finally of create_chat_completion:
\* if request_id and request_id in self.active_requests: del ...
PlainCleanup(reg, id) ==
  IF id # NoId /\ reg[id] # NoTok THEN [reg EXCEPT ![id] = NoTok] ELSE reg

\* finally after the attempt loop of create_chat_completion_stream
StreamCleanup(reg, id) ==
  IF id # NoId /\ reg[id] # NoTok THEN [reg EXCEPT ![id] = NoTok] ELSE reg

\* Mutant of CheckpointCancelled: the checkpoint never sees the signal.
CheckpointCancelled_never(reg, flags, id) == FALSE

\* if request_id and request_id in self.active_requests:
\*     if self.active_requests[request_id].is_set(): raise ...
CheckpointCancelled(reg, flags, id) ==
  id # NoId /\ reg[id] # NoTok /\ flags[reg[id]]

\* Mutant of ExhaustedAfterLoop: a remembered failure is enough.
ExhaustedAfterLoop_any_error(le, rc, mr) == le # NoError

\* if last_error and retry_count > max_retries
ExhaustedAfterLoop(le, rc, mr) == le # NoError /\ rc > mr

\* request_id in self.active_requests: what cancel_request(id) returns
cancel_request_returns(reg, id) == reg[id] # NoTok

\* ------------------------------------------------------------ helpers
InFlight(c) == pc[c] \notin {"off", "idle", "end"}

Flatten(ss) ==
  LET RECURSIVE F(_)
      F(i) == IF i > Len(ss) THEN <<>> ELSE ss[i] \o F(i + 1)
  IN F(1)

Frames(us) == [i \in 1..Len(us) |-> Frame(us[i])]

AppendLast(ss, u) == [ss EXCEPT ![Len(ss)] = Append(@, u)]

\* ------------------------------------------------------------- Init
InitWith(usable, retries) ==
  /\ stream_retry_enabled \in BOOLEAN
  /\ stream_max_retries \in retries
  /\ stream_retry_delay \in RetryDelays
  /\ active_requests = [x \in Ids |-> NoTok]
  /\ is_set = [t \in Tokens |-> FALSE]
  /\ kind = [c \in Calls |-> "none"]
  /\ pc = [c \in Calls |-> IF c \in usable THEN "idle" ELSE "off"]
  /\ request_id = [c \in Calls |-> NoId]
  /\ retry_count = [c \in Calls |-> 0]
  /\ last_error = [c \in Calls |-> NoError]
  /\ comp = [c \in Calls |-> "none"]
  /\ ctask = [c \in Calls |-> "none"]
  /\ upstream = [c \in Calls |-> NoError]
  /\ done = [c \in Calls |-> {}]
  /\ ready = [c \in Calls |-> <<>>]
  /\ result = [c \in Calls |-> NoResult]
  /\ recv = [c \in Calls |-> <<>>]
  /\ out = [c \in Calls |-> <<>>]
  /\ sleeps = [c \in Calls |-> <<>>]
  /\ opens = [c \in Calls |-> 0]
  /\ errs = [c \in Calls |-> {}]
  /\ raised = [c \in Calls |-> NoError]
  /\ cancel_at = [c \in Calls |-> NoMark]

\* The retry counts the settings are meant to hold.
InitSlots(usable) == InitWith(usable, 0..MaxRetries)

Init == InitSlots({1})

\* The constructor takes any int: nothing rejects a negative count.
InitAnyRetries == InitWith({1}, (0 - 1)..MaxRetries)

\* Event objects nothing refers to any more are gone: the flag of a stale
\* token that left the registry is forgotten.
Collect(reg, flags) ==
  [t \in Tokens |->
     IF t \notin Calls /\ (\A x \in Ids : reg[x] # t) THEN FALSE ELSE flags[t]]

\* ------------------------------------------- create_chat_completion_stream

\* The code after the attempt loop: the exhausted-retries check, then the
\* try/finally that removes the registry entry.
AfterLoop(c, id, rc, le, reg) ==
  /\ pc' = [pc EXCEPT ![c] = "end"]
  /\ IF ExhaustedAfterLoop(le, rc, max_retries)
       THEN /\ result' = [result EXCEPT ![c] = HTTPError(504, ClassifiedDetail)]
            /\ active_requests' = reg
       ELSE /\ result' = [result EXCEPT ![c] = Returned]
            /\ active_requests' = StreamCleanup(reg, id)
  /\ is_set' = Collect(active_requests', is_set)

\* while retry_count <= max_retries: ... await self.client.chat.completions.create
LoopTest(c, id, rc, le, reg) ==
  IF rc <= max_retries
    THEN /\ pc' = [pc EXCEPT ![c] = "open"]
         /\ opens' = [opens EXCEPT ![c] = @ + 1]
         /\ recv' = [recv EXCEPT ![c] = Append(@, <<>>)]
         /\ active_requests' = reg
         /\ is_set' = Collect(reg, is_set)
         /\ UNCHANGED result
    ELSE /\ AfterLoop(c, id, rc, le, reg)
         /\ UNCHANGED <<opens, recv>>

\* First pull of the generator: registration, then the first attempt.
StreamStart(c, id) ==
  /\ pc[c] = "idle"
  /\ kind' = [kind EXCEPT ![c] = "stream"]
  /\ request_id' = [request_id EXCEPT ![c] = id]
  /\ retry_count' = [retry_count EXCEPT ![c] = 0]
  /\ last_error' = [last_error EXCEPT ![c] = NoError]
  /\ LoopTest(c, id, 0, NoError, Register(active_requests, id, c))
  /\ UNCHANGED <<cfgVars, taskVars, out, sleeps, errs, raised, cancel_at>>

\* The upstream call of line 180 returns the stream; the loop awaits a chunk.
StreamOpened(c) ==
  /\ pc[c] = "open"
  /\ pc' = [pc EXCEPT ![c] = "read"]
  /\ UNCHANGED <<cfgVars, regVars, kind, request_id, retry_count, last_error,
                 taskVars, result, histVars, cancel_at>>

\* Exception e is raised inside the try of the current attempt.
HandleStream(c, e) ==
  LET h == StreamHandler(e, retry_count[c], max_retries, stream_retry_enabled,
                         stream_retry_delay)
  IN /\ errs' = [errs EXCEPT ![c] = @ \cup {h.clause}]
     /\ raised' = [raised EXCEPT ![c] = e]
     /\ last_error' = [last_error EXCEPT ![c] = IF h.last THEN e ELSE @]
     /\ IF h.act = "sleep"
          THEN /\ pc' = [pc EXCEPT ![c] = "sleep"]
               /\ sleeps' = [sleeps EXCEPT ![c] = Append(@, h.delay)]
               /\ UNCHANGED result
          ELSE /\ pc' = [pc EXCEPT ![c] = "end"]
               /\ result' = [result EXCEPT ![c] = HTTPError(h.status, h.detail)]
               /\ UNCHANGED sleeps

\* The upstream fails while the stream is being opened or read.
StreamError(c, e) ==
  /\ pc[c] \in {"open", "read"}
  /\ HandleStream(c, e)
  /\ UNCHANGED <<cfgVars, regVars, kind, request_id, retry_count, taskVars,
                 recv, out, opens, cancel_at>>

\* Mutant of StreamChunk: a retried attempt keeps its first chunk to itself.
StreamChunk_skip_retried_first(c) ==
  /\ pc[c] = "read"
  /\ Len(Flatten(recv[c])) < MaxChunks
  /\ LET u == Unit(retry_count[c], Len(recv[c][Len(recv[c])]) + 1)
     IN /\ recv' = [recv EXCEPT ![c] = AppendLast(@, u)]
        /\ IF CheckpointCancelled(active_requests, is_set, request_id[c])
             THEN /\ HandleStream(c, CancelledException)
                  /\ UNCHANGED out
             ELSE /\ out' = [out EXCEPT ![c] =
                              IF u.attempt > 0 /\ u.index = 1
                                THEN @ ELSE Append(@, Frame(u))]
                  /\ pc' = [pc EXCEPT ![c] = "yielded"]
                  /\ UNCHANGED <<last_error, sleeps, errs, raised, result>>
  /\ UNCHANGED <<cfgVars, regVars, kind, request_id, retry_count, taskVars,
                 opens, cancel_at>>

\* A chunk arrives: the cancellation checkpoint, then the yield.
StreamChunk(c) ==
  /\ pc[c] = "read"
  /\ Len(Flatten(recv[c])) < MaxChunks
  /\ LET u == Unit(retry_count[c], Len(recv[c][Len(recv[c])]) + 1)
     IN /\ recv' = [recv EXCEPT ![c] = AppendLast(@, u)]
        /\ IF CheckpointCancelled(active_requests, is_set, request_id[c])
             THEN /\ HandleStream(c, CancelledException)
                  /\ UNCHANGED out
             ELSE /\ out' = [out EXCEPT ![c] = Append(@, Frame(u))]
                  /\ pc' = [pc EXCEPT ![c] = "yielded"]
                  /\ UNCHANGED <<last_error, sleeps, errs, raised, result>>
  /\ UNCHANGED <<cfgVars, regVars, kind, request_id, retry_count, taskVars,
                 opens, cancel_at>>

\* The consumer pulls again after a unit: chunk_count += 1, next chunk awaited.
StreamResume(c) ==
  /\ pc[c] = "yielded"
  /\ pc' = [pc EXCEPT ![c] = "read"]
  /\ UNCHANGED <<cfgVars, regVars, kind, request_id, retry_count, last_error,
                 taskVars, result, histVars, cancel_at>>

\* The upstream stream ends: yield "data: [DONE]".
StreamEnd(c) ==
  /\ pc[c] = "read"
  /\ out' = [out EXCEPT ![c] = Append(@, DONE)]
  /\ pc' = [pc EXCEPT ![c] = "yieldDone"]
  /\ UNCHANGED <<cfgVars, regVars, kind, request_id, retry_count, last_error,
                 taskVars, result, recv, sleeps, opens, errs, raised, cancel_at>>

\* The consumer pulls after [DONE]: break, then the code after the loop.
StreamFinish(c) ==
  /\ pc[c] = "yieldDone"
  /\ AfterLoop(c, request_id[c], retry_count[c], last_error[c], active_requests)
  /\ UNCHANGED <<cfgVars, kind, request_id, retry_count, last_error, taskVars,
                 histVars, cancel_at>>

\* Mutant of StreamWake: the signal is polled when the sleep returns.
StreamWake_checks_signal(c) ==
  /\ pc[c] = "sleep"
  /\ retry_count' = [retry_count EXCEPT ![c] = @ + 1]
  /\ IF CheckpointCancelled(active_requests, is_set, request_id[c])
       THEN /\ pc' = [pc EXCEPT ![c] = "end"]
            /\ result' = [result EXCEPT ![c] = HTTPError(499, CancelledDetail)]
            /\ UNCHANGED <<regVars, opens, recv>>
       ELSE LoopTest(c, request_id[c], retry_count[c] + 1, last_error[c],
                     active_requests)
  /\ UNCHANGED <<cfgVars, kind, request_id, last_error, taskVars, out, sleeps,
                 errs, raised, cancel_at>>

\* asyncio.sleep(delay) returns: retry_count += 1; continue.
StreamWake(c) ==
  /\ pc[c] = "sleep"
  /\ retry_count' = [retry_count EXCEPT ![c] = @ + 1]
  /\ LoopTest(c, request_id[c], retry_count[c] + 1, last_error[c], active_requests)
  /\ UNCHANGED <<cfgVars, kind, request_id, last_error, taskVars, out, sleeps,
                 errs, raised, cancel_at>>

\* The consumer closes the generator at a yield: GeneratorExit is raised
\* there; it is no Exception, so no except clause of the loop catches it.
StreamClose(c) ==
  /\ pc[c] \in {"yielded", "yieldDone"}
  /\ pc' = [pc EXCEPT ![c] = "end"]
  /\ result' = [result EXCEPT ![c] = Closed]
  /\ UNCHANGED <<cfgVars, regVars, kind, request_id, retry_count, last_error,
                 taskVars, histVars, cancel_at>>

\* ------------------------------------------------- create_chat_completion
\* The two tasks and the coroutine of one call run on the asyncio event loop,
\* which runs its ready handles first-in first-out: ready[c] holds the
\* handles of call c in the order they were scheduled (call_soon).  A task is
\* "new" (created, first step scheduled), suspended ("io", "waiting"),
\* "woken" (its future is resolved, next step scheduled), "cancelling"
\* (cancel() called, CancelledError delivered at its next step), "done" or
\* "cancelled".

Range(q) == {q[i] : i \in 1..Len(q)}

\* Mutant of CancelWon: cancellation counts only while completion_task is pending.
CancelWon_only_pending(d) == d = {"cancel_task"}

\* if cancel_task in done
CancelWon(d) == "cancel_task" \in d

\* done, pending = await asyncio.wait([...], return_when=FIRST_COMPLETED)
DoneTasks(c) ==
  (IF comp[c] = "done" THEN {"completion_task"} ELSE {}) \cup
  (IF ctask[c] = "done" THEN {"cancel_task"} ELSE {})

\* task.cancel(): a task suspended on a future is woken with CancelledError,
\* one whose step is already scheduled gets the error at that step.
CancelTask(st) == IF st \in {"done", "cancelled", "none"} THEN st ELSE "cancelling"
Rescheduled(st) == st \in {"io", "waiting"}

\* Registration and the two create_task calls, up to the first suspension.
PlainStart(c, id) ==
  /\ pc[c] = "idle"
  /\ kind' = [kind EXCEPT ![c] = "plain"]
  /\ request_id' = [request_id EXCEPT ![c] = id]
  /\ active_requests' = Register(active_requests, id, c)
  /\ is_set' = Collect(active_requests', is_set)
  /\ comp' = [comp EXCEPT ![c] = "new"]
  /\ IF id # NoId
       THEN /\ ctask' = [ctask EXCEPT ![c] = "new"]
            /\ ready' = [ready EXCEPT ![c] = <<"completion_task", "cancel_task">>]
            /\ pc' = [pc EXCEPT ![c] = "wait"]
       ELSE /\ ready' = [ready EXCEPT ![c] = <<"completion_task">>]
            /\ pc' = [pc EXCEPT ![c] = "await"]
            /\ UNCHANGED ctask
  /\ UNCHANGED <<cfgVars, retry_count, last_error, upstream, done, result,
                 histVars, cancel_at>>

\* The upstream answers the request of completion_task (a result or an
\* exception): the task's next step becomes ready.
UpstreamReply(c, r) ==
  /\ comp[c] = "io"
  /\ upstream' = [upstream EXCEPT ![c] = r]
  /\ comp' = [comp EXCEPT ![c] = "woken"]
  /\ ready' = [ready EXCEPT ![c] = Append(@, "completion_task")]
  /\ UNCHANGED <<cfgVars, regVars, kind, pc, request_id, retry_count, last_error,
                 ctask, done, result, histVars, cancel_at>>

\* One step of completion_task (self.client.chat.completions.create).
CompletionTaskStep(c) ==
  /\ ready[c] # <<>> /\ Head(ready[c]) = "completion_task"
  /\ CASE comp[c] = "new" ->
            /\ comp' = [comp EXCEPT ![c] = "io"]
            /\ ready' = [ready EXCEPT ![c] = Tail(@)]
       [] comp[c] = "woken" ->
            /\ comp' = [comp EXCEPT ![c] = "done"]
            /\ ready' = [ready EXCEPT ![c] =
                 Append(Tail(@), IF pc[c] = "wait" THEN "_on_completion" ELSE "main")]
       [] OTHER ->
            /\ comp' = [comp EXCEPT ![c] = "cancelled"]
            /\ ready' = [ready EXCEPT ![c] = Append(Tail(@), "main")]
  /\ UNCHANGED <<cfgVars, regVars, kind, pc, request_id, retry_count, last_error,
                 ctask, upstream, done, result, histVars, cancel_at>>

\* One step of cancel_task (cancel_event.wait()).
CancelTaskStep(c) ==
  /\ ready[c] # <<>> /\ Head(ready[c]) = "cancel_task"
  /\ CASE ctask[c] = "new" /\ ~is_set[c] ->
            /\ ctask' = [ctask EXCEPT ![c] = "waiting"]
            /\ ready' = [ready EXCEPT ![c] = Tail(@)]
       [] ctask[c] = "woken" \/ (ctask[c] = "new" /\ is_set[c]) ->
            /\ ctask' = [ctask EXCEPT ![c] = "done"]
            /\ ready' = [ready EXCEPT ![c] = Append(Tail(@), "_on_completion")]
       [] OTHER ->
            /\ ctask' = [ctask EXCEPT ![c] = "cancelled"]
            /\ ready' = [ready EXCEPT ![c] = Append(Tail(@), "main")]
  /\ UNCHANGED <<cfgVars, regVars, kind, pc, request_id, retry_count, last_error,
                 comp, upstream, done, result, histVars, cancel_at>>

\* asyncio.wait's done callback on a finished task: the first one wakes the
\* waiting coroutine.
OnCompletion(c) ==
  /\ ready[c] # <<>> /\ Head(ready[c]) = "_on_completion"
  /\ ready' = [ready EXCEPT ![c] =
       IF pc[c] = "wait" /\ "main" \notin Range(ready[c])
         THEN Append(Tail(@), "main") ELSE Tail(@)]
  /\ UNCHANGED <<cfgVars, regVars, kind, pc, request_id, retry_count, last_error,
                 comp, ctask, upstream, done, result, histVars, cancel_at>>

\* The end of create_chat_completion: the cancellation check, the result of
\* completion_task, the except clauses and the finally.
Decide(c, d) ==
  /\ pc' = [pc EXCEPT ![c] = "end"]
  /\ result' = [result EXCEPT ![c] =
       IF request_id[c] # NoId /\ CancelWon(d) THEN PlainHandler(CancelledException)
       ELSE IF upstream[c] = NoError THEN Returned
       ELSE PlainHandler(upstream[c])]
  /\ active_requests' = PlainCleanup(active_requests, request_id[c])
  /\ is_set' = Collect(active_requests', is_set)

\* The coroutine of create_chat_completion resumes.
MainResume(c) ==
  /\ ready[c] # <<>> /\ Head(ready[c]) = "main"
  /\ CASE pc[c] = "wait" /\ DoneTasks(c) # {"completion_task", "cancel_task"} ->
            \* one task is pending: task.cancel(); await task
            /\ done' = [done EXCEPT ![c] = DoneTasks(c)]
            /\ comp' = [comp EXCEPT ![c] = CancelTask(@)]
            /\ ctask' = [ctask EXCEPT ![c] = CancelTask(@)]
            /\ ready' = [ready EXCEPT ![c] =
                 Tail(@) \o (IF Rescheduled(comp[c]) THEN <<"completion_task">> ELSE <<>>)
                         \o (IF Rescheduled(ctask[c]) THEN <<"cancel_task">> ELSE <<>>)]
            /\ pc' = [pc EXCEPT ![c] = "reap"]
            /\ UNCHANGED <<regVars, result>>
       [] pc[c] = "wait" /\ DoneTasks(c) = {"completion_task", "cancel_task"} ->
            /\ done' = [done EXCEPT ![c] = DoneTasks(c)]
            /\ ready' = [ready EXCEPT ![c] = Tail(@)]
            /\ Decide(c, DoneTasks(c))
            /\ UNCHANGED <<comp, ctask>>
       [] OTHER ->
            \* resumed from `await task` (pending reaped) or from the plain
            \* `await completion_task` of a call without request_id
            /\ ready' = [ready EXCEPT ![c] = Tail(@)]
            /\ Decide(c, done[c])
            /\ UNCHANGED <<comp, ctask, done>>
  /\ UNCHANGED <<cfgVars, kind, request_id, retry_count, last_error, upstream,
                 histVars, cancel_at>>

\* ------------------------------------------------------------ cancel_request

cancel_request(x) ==
  /\ IF cancel_request_returns(active_requests, x)
       THEN LET t == active_requests[x]
                first == ~is_set[t]
                live == t \in Calls
            IN /\ is_set' = [is_set EXCEPT ![t] = TRUE]
               \* Event.set() wakes the coroutine waiting on the event
               /\ IF live /\ first /\ ctask[t] = "waiting"
                    THEN /\ ctask' = [ctask EXCEPT ![t] = "woken"]
                         /\ ready' = [ready EXCEPT ![t] = Append(@, "cancel_task")]
                    ELSE UNCHANGED <<ctask, ready>>
               /\ cancel_at' =
                    IF live /\ first
                      THEN [cancel_at EXCEPT ![t] =
                              [comp |-> comp[t], nout |-> Len(out[t])]]
                      ELSE cancel_at
       ELSE UNCHANGED <<is_set, ctask, ready, cancel_at>>
  /\ UNCHANGED <<cfgVars, active_requests, kind, pc, request_id, retry_count,
                 last_error, comp, upstream, done, result, histVars>>

\* ------------------------------------------------------------------ slots

\* The caller is done with a finished call; its slot serves the next call.
\* An event the call left in the registry stays there under a stale token.
Reset(c) ==
  /\ pc[c] = "end"
  /\ pc' = [pc EXCEPT ![c] = "idle"]
  /\ kind' = [kind EXCEPT ![c] = "none"]
  /\ request_id' = [request_id EXCEPT ![c] = NoId]
  /\ retry_count' = [retry_count EXCEPT ![c] = 0]
  /\ last_error' = [last_error EXCEPT ![c] = NoError]
  /\ comp' = [comp EXCEPT ![c] = "none"]
  /\ ctask' = [ctask EXCEPT ![c] = "none"]
  /\ upstream' = [upstream EXCEPT ![c] = NoError]
  /\ done' = [done EXCEPT ![c] = {}]
  /\ ready' = [ready EXCEPT ![c] = <<>>]
  /\ result' = [result EXCEPT ![c] = NoResult]
  /\ recv' = [recv EXCEPT ![c] = <<>>]
  /\ out' = [out EXCEPT ![c] = <<>>]
  /\ sleeps' = [sleeps EXCEPT ![c] = <<>>]
  /\ opens' = [opens EXCEPT ![c] = 0]
  /\ errs' = [errs EXCEPT ![c] = {}]
  /\ raised' = [raised EXCEPT ![c] = NoError]
  /\ cancel_at' = [cancel_at EXCEPT ![c] = NoMark]
  /\ active_requests' =
       [x \in Ids |-> IF active_requests[x] = c THEN Stale(x) ELSE active_requests[x]]
  /\ is_set' =
       [t \in Tokens |->
          IF t = c THEN FALSE
          ELSE IF \E x \in Ids : active_requests[x] = c /\ t = Stale(x) THEN is_set[c]
          ELSE is_set[t]]
  /\ UNCHANGED cfgVars

Next ==
  \/ \E c \in Calls, id \in Ids \cup {NoId} : StreamStart(c, id)
  \/ \E c \in Calls : StreamOpened(c)
  \/ \E c \in Calls, e \in UpstreamErrors : StreamError(c, e)
  \/ \E c \in Calls : StreamChunk(c)
  \/ \E c \in Calls : StreamResume(c)
  \/ \E c \in Calls : StreamEnd(c)
  \/ \E c \in Calls : StreamFinish(c)
  \/ \E c \in Calls : StreamWake(c)
  \/ \E c \in Calls : StreamClose(c)
  \/ \E c \in Calls, id \in Ids \cup {NoId} : PlainStart(c, id)
  \/ \E c \in Calls, r \in UpstreamErrors \cup {NoError} : UpstreamReply(c, r)
  \/ \E c \in Calls : CompletionTaskStep(c)
  \/ \E c \in Calls : CancelTaskStep(c)
  \/ \E c \in Calls : OnCompletion(c)
  \/ \E c \in Calls : MainResume(c)
  \/ \E x \in Ids : cancel_request(x)
  \/ \E c \in Calls : Reset(c)

Spec == Init /\ [][Next]_vars

SpecAnyRetries == InitAnyRetries /\ [][Next]_vars

\* ------------------------------------------------------- concurrent calls

\* Two forwarding calls on one client and one event loop, each made once,
\* interleaved at their suspension points. The upstream either answers or
\* times out; one retry is configured.
ConcurrentErrors == {Exc("APITimeoutError", NoStatus, {"timed out"})}

InitConcurrent ==
  /\ InitWith({1, 2}, {1})
  /\ stream_retry_enabled
  /\ stream_retry_delay = 2

NextConcurrent ==
  \/ \E c \in Calls, id \in Ids \cup {NoId} : StreamStart(c, id)
  \/ \E c \in Calls : StreamOpened(c)
  \/ \E c \in Calls, e \in ConcurrentErrors : StreamError(c, e)
  \/ \E c \in Calls : StreamChunk(c)
  \/ \E c \in Calls : StreamResume(c)
  \/ \E c \in Calls : StreamEnd(c)
  \/ \E c \in Calls : StreamFinish(c)
  \/ \E c \in Calls : StreamWake(c)
  \/ \E c \in Calls : StreamClose(c)
  \/ \E c \in Calls, id \in Ids \cup {NoId} : PlainStart(c, id)
  \/ \E c \in Calls, r \in ConcurrentErrors \cup {NoError} : UpstreamReply(c, r)
  \/ \E c \in Calls : CompletionTaskStep(c)
  \/ \E c \in Calls : CancelTaskStep(c)
  \/ \E c \in Calls : OnCompletion(c)
  \/ \E c \in Calls : MainResume(c)
  \/ \E x \in Ids : cancel_request(x)

SpecConcurrent == InitConcurrent /\ [][NextConcurrent]_vars

\* =================================================================== claims

Streaming(c) == kind[c] = "stream"
Plain(c)     == kind[c] = "plain"
Ended(c)     == pc[c] = "end"
HasId(c)     == request_id[c] # NoId
Registered(c) == HasId(c) /\ active_requests[request_id[c]] # NoTok

UnitsOf(evs) == SelectSeq(evs, LAMBDA ev : ev # DONE)
Yielded(c, ev) == ev \in Range(out[c])
\* A unit was received and not yielded: the checkpoint saw the signal set.
CheckpointFired(c) == Len(Flatten(recv[c])) > Len(UnitsOf(out[c]))
\* cancel_request returned true for the call's own event ...
Signalled(c) == cancel_at[c] # NoMark
\* ... before completion_task had finished
SignalledBeforeCompletion(c) == cancel_at[c].comp \in {"new", "io", "woken"}

\* C1: once a streaming call with an id has terminated (success, failure,
\* retry exhaustion, cancellation), active_requests holds no entry for its id.
C1_StreamExitReleasesToken ==
  \A c \in Calls : Streaming(c) /\ Ended(c) /\ HasId(c) => ~Registered(c)

\* C2: once a non-streaming call with an id has returned or raised (result,
\* upstream failure, cancellation), active_requests holds no entry for its id.
C2_PlainExitReleasesToken ==
  \A c \in Calls : Plain(c) /\ Ended(c) /\ HasId(c) => ~Registered(c)

\* C2 witness: a non-streaming call with an id was cancelled and has raised.
C2_Witness ==
  \E c \in Calls : /\ Plain(c) /\ Ended(c) /\ HasId(c)
                   /\ Signalled(c) /\ result[c].kind = "error"

\* C3: in every state cancel_request(id) returns true exactly when a
\* forwarding call registered under id is still in flight.
C3_CancelTrueIffInFlight ==
  \A x \in Ids :
    cancel_request_returns(active_requests, x)
      <=> \E c \in Calls : InFlight(c) /\ request_id[c] = x

\* C4: a non-streaming call whose signal was set before its upstream call
\* completed never returns a successful result: it ends in a failure.
C4_CancelledPlainNeverSucceeds ==
  \A c \in Calls :
    Plain(c) /\ Ended(c) /\ SignalledBeforeCompletion(c) => result[c].kind = "error"

\* C4 witness: the upstream answered successfully after the signal was set,
\* and the call still ended in a failure.
C4_Witness ==
  \E c \in Calls : /\ Plain(c) /\ Ended(c) /\ cancel_at[c].comp = "io"
                   /\ comp[c] = "done" /\ upstream[c] = NoError
                   /\ result[c].kind = "error"

\* C5: when cancellation wins the race of a non-streaming call, the failure
\* the caller gets is status 499 with detail 'Request cancelled by client'.
C5_PlainCancelIs499 ==
  \A c \in Calls :
    Plain(c) /\ Ended(c) /\ CancelWon(done[c])
      => result[c] = HTTPError(499, CancelledDetail)

\* C6: a streaming call that receives a unit while its registered signal is
\* set terminates with the Cancelled outcome, status 499.
C6_StreamCancelIs499 ==
  \A c \in Calls :
    Streaming(c) /\ Ended(c) /\ CheckpointFired(c) => result[c].status = 499

\* C7: once a checkpoint of a streaming call has observed the signal set, the
\* call has terminated: the observed unit and every later event (a unit or
\* [DONE]) is not yielded, no backoff sleep is taken and the upstream is not
\* opened again, whatever the attempt number and the maximum retry count.
C7_NothingAfterObservedCancel ==
  \A c \in Calls :
    Streaming(c) /\ CheckpointFired(c) =>
      /\ Ended(c) /\ result[c].kind = "error"
      /\ ~Yielded(c, DONE)
      /\ Len(UnitsOf(out[c])) + 1 = Len(Flatten(recv[c]))
      /\ Len(sleeps[c]) = retry_count[c]
      /\ opens[c] = retry_count[c] + 1

\* C7 witness: the signal was observed in a retried attempt of a call that
\* still had retries left.
C7_Witness ==
  \E c \in Calls : /\ Streaming(c) /\ CheckpointFired(c) /\ Ended(c)
                   /\ retry_count[c] >= 1
                   /\ MayRetry(retry_count[c], max_retries, stream_retry_enabled)

\* C8 (as claimed): if cancel_request(id) returned true for a streaming call
\* before the call yielded [DONE], the call never yields [DONE] afterwards.
C8_NoDoneAfterCancel ==
  \A c \in Calls :
    Streaming(c) /\ Signalled(c) =>
      ~(Yielded(c, DONE) /\ cancel_at[c].nout < Len(out[c]))

\* C8 (amended): after cancel_request(id) returned true for a streaming call
\* the call yields no further unit, and it yields [DONE] only if the
\* upstream stream ends without another unit being received.
C8_DoneAfterCancelOnlyWithoutUnit ==
  \A c \in Calls :
    Streaming(c) /\ Signalled(c) =>
      /\ \A i \in 1..Len(out[c]) : i > cancel_at[c].nout => out[c][i] = DONE
      /\ CheckpointFired(c) => ~Yielded(c, DONE)

\* C8 witness: the cancellation arrived after a unit had been yielded and
\* was observed at the next unit; the sequence stopped without [DONE].
C8_Witness ==
  \E c \in Calls : /\ Streaming(c) /\ Signalled(c) /\ cancel_at[c].nout >= 1
                   /\ CheckpointFired(c) /\ Ended(c) /\ ~Yielded(c, DONE)

\* C9: the backoff sleep after the failure of attempt n is exactly
\* stream_retry_delay * 2^n, for n in [0, max_retries) and every retryable
\* kind of failure.
C9_BackoffIsExponential ==
  \A c \in Calls :
    /\ Len(sleeps[c]) <= max_retries
    /\ \A i \in 1..Len(sleeps[c]) : sleeps[c][i] = stream_retry_delay * 2^(i - 1)

\* C9 witness: a call is in its last permitted backoff sleep, after a
\* retryable API error and a retryable generic error.
C9_Witness ==
  \E c \in Calls : /\ Streaming(c) /\ pc[c] = "sleep"
                   /\ Len(sleeps[c]) = MaxRetries
                   /\ {"api", "generic"} \subseteq errs[c]

\* C10: a streaming call whose first k attempts (k <= max_retries) fail with
\* a timeout/connection failure and whose attempt k succeeds sleeps k times,
\* base*2^0 .. base*2^(k-1) in order, opens the upstream k+1 times and ends
\* with the events of attempt k followed by [DONE], with no failure reported.
C10_TimeoutsThenSuccess ==
  \A c \in Calls :
    Streaming(c) /\ errs[c] \subseteq {"timeout"} =>
      LET k == retry_count[c]
          last == Frames(recv[c][k + 1]) \o <<DONE>>
      IN /\ Ended(c) /\ result[c].kind = "error" => k = max_retries
         /\ Yielded(c, DONE) =>
              /\ k <= max_retries
              /\ Len(sleeps[c]) = k
              /\ \A i \in 1..k : sleeps[c][i] = stream_retry_delay * 2^(i - 1)
              /\ opens[c] = k + 1
              /\ Len(out[c]) >= Len(last)
              /\ SubSeq(out[c], Len(out[c]) - Len(last) + 1, Len(out[c])) = last
              /\ result[c].kind # "error"

\* C10 witness: max_retries timeouts, then an attempt that delivered a unit
\* and ended; the call has returned.
C10_Witness ==
  \E c \in Calls : /\ Streaming(c) /\ errs[c] = {"timeout"}
                   /\ retry_count[c] = MaxRetries
                   /\ Len(recv[c][retry_count[c] + 1]) >= 1
                   /\ Yielded(c, DONE) /\ Ended(c) /\ result[c] = Returned

\* The exception classes of the categories the taxonomy calls non-retryable.
NonRetryableClasses == {"AuthenticationError", "RateLimitError", "BadRequestError"}
NonRetryable(e) == \E cls \in NonRetryableClasses : IsInstance(e, cls)
Failed(c) == Ended(c) /\ result[c].kind = "error"

\* C11: a streaming call whose first attempt fails with an authentication,
\* rate-limit or malformed-request error has ended, has never slept, has opened
\* the upstream exactly once, and reports status 401, 429 or 400 respectively,
\* whatever the retry settings are.
C11_NonRetryableFailsAtOnce ==
  \A c \in Calls :
    Streaming(c) /\ retry_count[c] = 0 /\ NonRetryable(raised[c]) =>
      /\ Failed(c)
      /\ sleeps[c] = <<>>
      /\ opens[c] = 1
      /\ IsInstance(raised[c], "AuthenticationError") => result[c].status = 401
      /\ IsInstance(raised[c], "RateLimitError") => result[c].status = 429
      /\ IsInstance(raised[c], "BadRequestError") => result[c].status = 400

\* A rate-limit error ends a call that still had every retry left.
C11_Witness ==
  \E c \in Calls :
    /\ Streaming(c) /\ Failed(c)
    /\ stream_retry_enabled /\ stream_max_retries = MaxRetries
    /\ IsInstance(raised[c], "RateLimitError")
    /\ result[c].status = 429 /\ opens[c] = 1

\* The except clauses that can retry, and the failures they retry.
RetryClauses == {"timeout", "api", "generic"}
Retryable(e) == ~NonRetryable(e) /\ is_retryable_error(e)

\* C12: a streaming call that failed, each of whose attempts failed with a
\* retryable failure, has slept exactly max_retries times and opened the
\* upstream exactly max_retries + 1 times; a call made with a maximum of 0 or
\* with retries disabled never sleeps and opens the upstream once.
C12_RetryableFailsAfterMaxRetries ==
  \A c \in Calls :
    /\ Streaming(c) /\ Failed(c) /\ errs[c] \subseteq RetryClauses
         /\ Retryable(raised[c]) =>
           /\ Len(sleeps[c]) = (IF stream_retry_enabled THEN stream_max_retries ELSE 0)
           /\ opens[c] = (IF stream_retry_enabled THEN stream_max_retries ELSE 0) + 1
    /\ Streaming(c) /\ (~stream_retry_enabled \/ stream_max_retries = 0) =>
           sleeps[c] = <<>> /\ opens[c] = 1

\* Every permitted retry was used, by failures of all three retrying clauses.
C12_Witness ==
  \E c \in Calls :
    /\ Streaming(c) /\ Failed(c) /\ Retryable(raised[c])
    /\ stream_retry_enabled /\ stream_max_retries = MaxRetries
    /\ RetryClauses \subseteq errs[c]
    /\ Len(sleeps[c]) = MaxRetries /\ opens[c] = MaxRetries + 1

\* The attempt that failed was the one after the last permitted retry.
Exhausted(c) ==
  /\ Streaming(c) /\ Failed(c) /\ Retryable(raised[c])
  /\ max_retries > 0 /\ retry_count[c] = max_retries

\* C13: a streaming call that exhausts its retries reports status 504, whether
\* its last failure was a timeout, a connection error, a retryable API status
\* error or a retryable error of another class.
C13_ExhaustionIs504 ==
  \A c \in Calls : Exhausted(c) => result[c].status = 504

\* An upstream API error that carries a status and belongs to none of the
\* classes with a clause of their own.
ApiStatusError(e) ==
  /\ IsInstance(e, "APIError") /\ e.status # NoStatus
  /\ ~NonRetryable(e)
  /\ ~IsInstance(e, "APIConnectionError")
\* The call ended on a failure although it had attempts left.
FailedWithAttemptsLeft(c) ==
  Streaming(c) /\ Failed(c) /\ retry_count[c] < max_retries

\* C14: a streaming attempt that fails with an upstream API error of status
\* 408 or any 5xx does not end the call while attempts remain: it is retried,
\* whatever the message says.
C14_Any5xxOr408IsRetried ==
  \A c \in Calls :
    FailedWithAttemptsLeft(c) /\ ApiStatusError(raised[c]) =>
      raised[c].status \notin (500..599) \cup {408}

\* C14 as the code has it: with attempts left, an upstream API error ends the
\* call only if its status is none of 408, 429, 502, 503, 504 and its message
\* holds no retry hint.
C14_ListedStatusIsRetried ==
  \A c \in Calls :
    FailedWithAttemptsLeft(c) /\ ApiStatusError(raised[c]) =>
      /\ raised[c].status \notin {408, 429, 502, 503, 504}
      /\ raised[c].msg \cap retryable_patterns = {}

\* A 503 without any hint in its message is being slept on.
C14_Witness ==
  \E c \in Calls :
    /\ Streaming(c) /\ pc[c] = "sleep"
    /\ ApiStatusError(raised[c]) /\ raised[c].status = 503 /\ raised[c].msg = {}
    /\ retry_count[c] < max_retries

\* C15: a rate-limit failure of a streaming attempt ends the call at once with
\* status 429, without a sleep on its account, and is_retryable_error says of
\* it that it is not retryable.
C15_RateLimitedIsNotRetryable ==
  \A c \in Calls :
    Streaming(c) /\ IsInstance(raised[c], "RateLimitError") =>
      /\ Failed(c) /\ result[c].status = 429
      /\ Len(sleeps[c]) = retry_count[c]
      /\ ~is_retryable_error(raised[c])

\* APITimeoutError is an APIConnectionError.
TimeoutOrConnection(e) == IsInstance(e, "APIConnectionError")
\* The plain call ended on what the upstream call raised.
PlainFailedWith(c) ==
  Plain(c) /\ Failed(c) /\ upstream[c] # NoError /\ ~CancelWon(done[c])

\* C16: a call that ends on an upstream timeout or connection failure reports
\* status 504, on the streaming path (once its retries are used up) and on the
\* non-streaming path alike.
C16_TimeoutIs504OnBothPaths ==
  \A c \in Calls :
    /\ Streaming(c) /\ Failed(c) /\ TimeoutOrConnection(raised[c]) =>
         result[c].status = 504
    /\ PlainFailedWith(c) /\ TimeoutOrConnection(upstream[c]) =>
         result[c].status = 504

\* The attempt ended at the checkpoint: the chunk it had just received is the
\* one at which the call gave up.
CancelObserved(c) == raised[c] = CancelledException
\* The units received before the attempts failed, attempt after attempt.
ReceivedBeforeFailing(c) ==
  LET all == Flatten(recv[c])
  IN IF CancelObserved(c) THEN SubSeq(all, 1, Len(all) - 1) ELSE all
\* The last attempt read its stream to the end.
LastAttemptSucceeded(c) ==
  pc[c] = "yieldDone" \/ (Ended(c) /\ result[c] = Returned)

\* C17: what a streaming call has yielded is, attempt after attempt, one frame
\* for each unit received before the attempt failed, in the order of receipt,
\* and after the units of a last attempt that succeeded a single [DONE];
\* nothing is dropped, repeated, reordered or merged, and [DONE] follows
\* nothing but success.
C17_EventsAreUnitsThenDone ==
  \A c \in Calls :
    Streaming(c) =>
      /\ UnitsOf(out[c]) = Frames(ReceivedBeforeFailing(c))
      /\ out[c] \in {UnitsOf(out[c]), Append(UnitsOf(out[c]), DONE)}
      /\ LastAttemptSucceeded(c) => Yielded(c, DONE)
      /\ Yielded(c, DONE) => ~Failed(c) /\ pc[c] \in {"yieldDone", "end"}

\* Two attempts each delivered a unit, the second one ended with [DONE].
C17_Witness ==
  \E c \in Calls :
    /\ Streaming(c) /\ LastAttemptSucceeded(c)
    /\ out[c] = <<Frame(Unit(0, 1)), Frame(Unit(1, 1)), DONE>>

\* How a streaming call can have ended, the consumer not having closed it.
EndedWithDone(c) ==
  result[c] = Returned /\ out[c] # <<>> /\ out[c][Len(out[c])] = DONE
EndedWithFailure(c) ==
  Failed(c) /\ result[c].status # NoStatus /\ result[c].detail # ""
    /\ ~Yielded(c, DONE)
Terminated(c) == Streaming(c) /\ Ended(c) /\ result[c] # Closed
\* What the generator does next, the consumer pulling and the upstream
\* answering.
StreamStep(c) ==
  \/ StreamOpened(c) \/ StreamChunk(c) \/ StreamResume(c) \/ StreamEnd(c)
  \/ StreamFinish(c) \/ StreamWake(c)
  \/ \E e \in UpstreamErrors : StreamError(c, e)
\* A call that has not ended can take a step, and its attempts are bounded.
Terminates(c) ==
  /\ Streaming(c) /\ ~Ended(c) => ENABLED StreamStep(c)
  /\ Streaming(c) => opens[c] <= max_retries + 1 /\ Len(sleeps[c]) <= max_retries

\* C18: whatever stream_max_retries and stream_retry_enabled are, a streaming
\* call that terminates has either yielded [DONE] last and reports no failure,
\* or reports one failure with a status and a message and has yielded no
\* [DONE]: one of the two, never none and never both.
C18_DoneXorFailure ==
  \A c \in Calls :
    Terminated(c) => (EndedWithDone(c) # EndedWithFailure(c))

\* C18 for the retry counts the loop runs with (max_retries >= 0: retries
\* disabled, or stream_max_retries not negative): the call always has a next
\* step until it ends, after at most max_retries + 1 attempts, and it ends in
\* exactly one of the two ways.
C18_DoneXorFailureFromZero ==
  \A c \in Calls :
    max_retries >= 0 =>
      /\ Terminates(c)
      /\ Terminated(c) => (EndedWithDone(c) # EndedWithFailure(c))

\* A call that yielded a unit, was retried and then gave up.
C18_Witness ==
  \E c \in Calls :
    /\ Terminated(c) /\ EndedWithFailure(c) /\ ~EndedWithDone(c)
    /\ out[c] # <<>> /\ sleeps[c] # <<>>

\* The signal was first set when completion_task had already finished.
SignalledAfterCompletion(c) == cancel_at[c].comp = "done"

\* C19: a non-streaming call with an id whose upstream call completed
\* successfully before the cancellation signal was set returns the upstream
\* result, however completion_task, cancel_task and cancel_request interleave.
C19_CompletionFirstReturnsResult ==
  \A c \in Calls :
    Plain(c) /\ Ended(c) /\ upstream[c] = NoError /\ SignalledAfterCompletion(c) =>
      result[c] = Returned

\* Failures pool exhaustion must not be mistaken for: a timeout while reading
\* or connecting, a connection failure, an unexpected error.
OtherFailures ==
  { Exc("APITimeoutError", NoStatus, {"timed out"}),
    Exc("APIConnectionError", NoStatus, {"connection"}),
    Exc("Exception", NoStatus, {}) }
\* What the streaming path reports for e once no retry is left.
StreamReport(e) ==
  LET h == StreamHandler(e, 0, 0, FALSE, 0) IN HTTPError(h.status, h.detail)

\* C20: a call that ends because the connection pool was exhausted reports a
\* status and category of its own: not what the same path reports for a read
\* or connect timeout, a connection failure or an unexpected error.
C20_PoolExhaustionIsDistinct ==
  \A c \in Calls :
    /\ Streaming(c) /\ Failed(c) /\ raised[c] = PoolTimeout =>
         \A e \in OtherFailures :
           result[c].status # StreamReport(e).status /\ result[c] # StreamReport(e)
    /\ PlainFailedWith(c) /\ upstream[c] = PoolTimeout =>
         \A e \in OtherFailures :
           result[c].status # PlainHandler(e).status /\ result[c] # PlainHandler(e)

\* The failure the call reports is the one an except clause of the attempt
\* loop raised for the exception of the last attempt.
RaisedByHandler(c) ==
  LET h == StreamHandler(raised[c], retry_count[c], max_retries,
                         stream_retry_enabled, stream_retry_delay)
  IN /\ raised[c] # NoError /\ h.act = "raise" /\ h.clause \in errs[c]
     /\ result[c] = HTTPError(h.status, h.detail)

\* C21: with max_retries >= 0 a streaming call always has
\* 0 <= retry_count <= max_retries; so the test after the loop (last_error set
\* and retry_count > max_retries) is false in every state, and a call that
\* failed reports what an except clause of the attempt loop raised.
C21_RetryCountWithinBound ==
  \A c \in Calls :
    Streaming(c) /\ max_retries >= 0 =>
      /\ 0 <= retry_count[c] /\ retry_count[c] <= max_retries
      /\ ~ExhaustedAfterLoop(last_error[c], retry_count[c], max_retries)
      /\ Failed(c) => RaisedByHandler(c)

\* Every retry was used and the last attempt timed out, with last_error set.
C21_Witness ==
  \E c \in Calls :
    /\ Exhausted(c) /\ RaisedByHandler(c)
    /\ retry_count[c] = MaxRetries /\ last_error[c] # NoError
    /\ IsInstance(raised[c], "APITimeoutError")

\* No two calls made so far carry the same id.
DistinctIds ==
  \A c, d \in Calls :
    c # d /\ HasId(c) /\ HasId(d) => request_id[c] # request_id[d]
\* The call ended as cancelled: cancel_task was in done, or the checkpoint
\* found the signal set.
EndedCancelled(c) ==
  \/ Plain(c) /\ Ended(c) /\ CancelWon(done[c])
  \/ Streaming(c) /\ Ended(c) /\ CancelObserved(c)
\* Each entry of the registry is the token of the call made under its key, a
\* call in flight under an id finds its own token there (so no lookup of it
\* misses), and only a call whose own signal is set has ended as cancelled.
EntriesAreOwn ==
  /\ \A x \in Ids :
       active_requests[x] # NoTok =>
         active_requests[x] \in Calls /\ request_id[active_requests[x]] = x
  /\ \A c \in Calls :
       /\ InFlight(c) /\ HasId(c) => active_requests[request_id[c]] = c
       /\ EndedCancelled(c) => HasId(c) /\ is_set[c]
\* A signal is set by cancel_request of the id of its call and by nothing
\* else, cancel_request(x) sets no other signal, and an entry of the registry
\* changes only in a step of the call made under its key.
StepsTouchOwn ==
  /\ \A c \in Calls :
       is_set'[c] # is_set[c] =>
         /\ HasId(c) /\ is_set'[c]
         /\ cancel_request(request_id[c])
         /\ \A d \in Calls \ {c} : is_set'[d] = is_set[d]
  /\ \A x \in Ids :
       active_requests'[x] # active_requests[x] =>
         \E c \in Calls : /\ request_id'[c] = x /\ pc'[c] # pc[c]
                          /\ active_requests'[x] \in {c, NoTok}

\* C22: while the calls made carry pairwise distinct ids, cancel_request(a)
\* sets the signal of a's call only and no other call ends as cancelled for
\* it, a call's registration, completion and cleanup leave the entries of the
\* other calls alone, and a call finds its own entry whenever it looks it up.
C22_DistinctIdsAreIndependent ==
  [][DistinctIds' => EntriesAreOwn' /\ StepsTouchOwn]_vars

\* A non-streaming call ended as cancelled while a streaming call under
\* another id is between two units, registered and not signalled.
C22_Witness ==
  \E c, d \in Calls :
    /\ Plain(c) /\ EndedCancelled(c) /\ is_set[c]
    /\ Streaming(d) /\ pc[d] = "yielded" /\ HasId(d)
    /\ request_id[d] # request_id[c]
    /\ active_requests[request_id[d]] = d /\ ~is_set[d]

\* The call has just been made under an id / has just run its cleanup.
Registers(c) == pc[c] = "idle" /\ pc'[c] # "idle" /\ request_id'[c] # NoId
CleansUp(c) ==
  /\ pc[c] # "end" /\ pc'[c] = "end" /\ HasId(c)
  /\ Plain(c) \/ result'[c] = Returned

SignalSet(c) ==
  /\ Streaming(c) /\ InFlight(c) /\ HasId(c)
  /\ active_requests[request_id[c]] = c /\ is_set[c]

\* C24: once the signal of a streaming call in flight is set, the call opens
\* no upstream stream any more, also when the signal was set during a backoff
\* sleep or between two attempts.
C24_NoOpenAfterSignal ==
  [][\A c \in Calls : SignalSet(c) => opens'[c] = opens[c]]_vars

\* C24 as the code has it: the signal is polled when a unit is received and
\* nowhere else. With the signal set, a sleeping call opens the next attempt
\* when the sleep returns and opens a stream at no other moment, it yields no
\* further unit, and the first unit it receives ends it at the checkpoint.
C24_SignalPolledAtUnitsOnly ==
  [][\A c \in Calls :
       SignalSet(c) =>
         /\ opens'[c] # opens[c] => pc[c] = "sleep"
         /\ pc[c] = "sleep" /\ pc'[c] # pc[c] =>
              pc'[c] = "open" /\ opens'[c] = opens[c] + 1
         /\ out'[c] \in {out[c], Append(out[c], DONE)}
         /\ recv'[c] # recv[c] /\ opens'[c] = opens[c] =>
              pc'[c] = "end" /\ raised'[c] = CancelledException
    ]_vars

\* The signal is set while the call sleeps, and the next step opens a stream.
C24_Witness ==
  \E c \in Calls :
    /\ SignalSet(c) /\ pc[c] = "sleep"
    /\ ENABLED (StreamWake(c) /\ opens'[c] = opens[c] + 1)

\* C25: once the consumer has closed a streaming call at a yielded event, a
\* unit or [DONE], the registry holds no entry for the id of that call.
C25_ClosedStreamReleasesToken ==
  \A c \in Calls :
    Streaming(c) /\ Ended(c) /\ result[c] = Closed /\ HasId(c) =>
      active_requests[request_id[c]] = NoTok

====
